---- MODULE Spec2Model ----
(***************************************************************************)
(* Model of fixed_capacity_vec (src/src/lib.rs): a Vec<T> split into a     *)
(* read slice and a FixedCapacityVec write view that appends into the      *)
(* Vec's spare capacity and panics instead of reallocating.                *)
(*                                                                         *)
(* The Vec is modelled as raw memory `mem` (slot index -> element or       *)
(* Uninit) together with its `len` and `cap` fields.  Slots at indices     *)
(* >= cap lie outside the Vec's allocation.  usize is WordBits wide.       *)
(* Elements are only ever copied, never inspected, so every input         *)
(* sequence is taken with pairwise distinct elements <<tag, index>>: any   *)
(* other input is the image of such a one under a renaming of elements,    *)
(* and so is the buffer it leaves.  A panic unwinds through the scope      *)
(* that holds the view, so a failed call ends the view.                    *)
(***************************************************************************)
EXTENDS Integers, Sequences, FiniteSets, TLC

VARIABLES
    mem,        \* raw memory behind Vec::as_mut_ptr(), slot index -> element
    len,        \* Vec::len()
    cap,        \* Vec::capacity()
    view,       \* "none" (not split yet) | "live" (a FixedCapacityVec borrows
                \* the Vec) | "dropped" (the view went out of scope) |
                \* "gone" (a call panicked or crashed the process)
    start,      \* FixedCapacityVec::start
    max_len,    \* FixedCapacityVec::max_len
    op,         \* the last call: [name, slice, n, capacity]
    result,     \* how the last call ended
    copies,     \* the memory copies the last call made, in order
    pre_buf,    \* the Vec's contents when the last call began
    pre_cap,    \* the Vec's capacity when the last call began
    req,        \* the capacity the split was asked for
    orig,       \* the Vec's contents when the live view was split off
    cap0,       \* the Vec's capacity right after the split
    appended    \* what the successful appends of this view asked to append

vars == <<mem, len, cap, view, start, max_len, op, result, copies,
          pre_buf, pre_cap, req, orig, cap0, appended>>

----------------------------------------------------------------------------
(* Bounds of the model *)

WordBits == 5
MaxInitLen == 1
MaxSlack == 1
MaxCap == 6
MaxSliceLen == 2
MaxN == 3
MaxFault == 2
MaxDist == 3
MaxCount == 7

Max(a, b) == IF a >= b THEN a ELSE b
Min(a, b) == IF a <= b THEN a ELSE b

UsizeMax == 2^WordBits - 1
IsizeMax == 2^(WordBits - 1) - 1
MaxTotal == MaxInitLen + MaxCap
DecodeTotal == MaxDist + MaxCount
MemSize == Max(MaxTotal, DecodeTotal) + MaxSlack + Max(MaxSliceLen, MaxDist) + 1

Uninit == <<"uninit", 0>>
Addr == 0 .. MemSize - 1

\* The sequence of k distinct elements tagged `tag`.
Elems(tag, k) == [i \in 1 .. k |-> <<tag, i>>]
InitBufs == {Elems("o", k) : k \in 0 .. MaxInitLen}
Slices == {Elems("s", k) : k \in 0 .. MaxSliceLen}
Iters == Slices
Items == {<<"s", 1>>}
Reps == (0 .. MaxN) \cup {UsizeMax}
Caps == (0 .. MaxCap) \cup {UsizeMax}
Builds == {"debug", "release"}

----------------------------------------------------------------------------
(* Memory and Vec primitives *)

\* The initialized contents of a Vec: slots 0 .. l-1.
BufOf(m, l) == [i \in 1 .. l |-> m[i - 1]]

\* Fresh memory holding the elements of s and nothing else.
MemOf(s) == [i \in Addr |-> IF i < Len(s) THEN s[i + 1] ELSE Uninit]

\* One recorded copy: k slots written from index `to` on, read from the
\* caller's slice ("arg") or from the buffer itself at index `from` ("buf").
\* `count` is the count the copy was called with; it differs from the slots
\* written only for a copy that the process did not survive.
CopyRec(src, from, to, k) ==
    [src |-> src, from |-> from, to |-> to, size |-> k, count |-> k]

\* ptr::copy_nonoverlapping(slice.as_ptr() + off, base + to, k)
CopySlice(m, s, off, to, k) ==
    [i \in DOMAIN m |-> IF i >= to /\ i < to + k THEN s[off + (i - to) + 1] ELSE m[i]]

\* ptr::copy_nonoverlapping(base + from, base + to, k) on disjoint ranges
CopyMem(m, from, to, k) ==
    [i \in DOMAIN m |-> IF i >= to /\ i < to + k THEN m[from + (i - to)] ELSE m[i]]

\* A front-to-back copy of k slots whose ranges may overlap (what a forward
\* memcpy leaves behind when it is handed overlapping ranges).
RECURSIVE CopyForward(_, _, _, _)
CopyForward(m, from, to, k) ==
    IF k = 0 \/ to \notin DOMAIN m \/ from \notin DOMAIN m THEN m
    ELSE CopyForward([m EXCEPT ![to] = m[from]], from + 1, to + 1, k - 1)

\* The slots a sequence of copies wrote.
RECURSIVE WritesOf(_)
WritesOf(cs) ==
    IF cs = <<>> THEN {}
    ELSE (Head(cs).to .. (Head(cs).to + Head(cs).size - 1)) \cup WritesOf(Tail(cs))

\* How a call ends: the Vec afterwards, the result, the copies made.
Outcome(m, l, c, r, cs) == [mem |-> m, len |-> l, cap |-> c, result |-> r, copies |-> cs]

checked_mul_Wrapping(a, b) == [some |-> TRUE, val |-> (a * b) % (UsizeMax + 1)]

\* usize::checked_mul
checked_mul(a, b) ==
    IF a * b > UsizeMax THEN [some |-> FALSE, val |-> 0] ELSE [some |-> TRUE, val |-> a * b]

\* Vec::reserve(additional): the capacities it may leave.  It panics with
\* "capacity overflow" when len + additional exceeds isize::MAX; it leaves
\* the capacity alone when the spare capacity already suffices; otherwise
\* it reallocates to at least len + additional slots.
ReserveFails(l, additional) == l + additional > IsizeMax

ReserveOutcomes(l, c, additional) ==
    IF c - l >= additional THEN {c}
    ELSE {l + additional, l + additional + MaxSlack}

\* The memory after Vec::reserve: a reallocation moves the initialized
\* elements and leaves the spare slots uninitialized.
ReserveMem(m, l, c, newcap) == IF newcap = c THEN m ELSE MemOf(BufOf(m, l))

\* Vec::push: grows the allocation when it is full, then writes the slot
\* at len and increments len.
VecPushCap(l, c) == IF l = c THEN Max(2 * c, l + 1) ELSE c

VecPush(m, l, c, item, cs) ==
    Outcome([m EXCEPT ![l] = item], l + 1, VecPushCap(l, c), "ok",
            Append(cs, CopyRec("arg", 0, l, 1)))

----------------------------------------------------------------------------
(* AsFixedCapacityVec::with_fixed_capacity *)

CapacityNonZero_Unchecked(c) == TRUE

\* assert!(self.capacity() > 0)
CapacityNonZero(c) == c > 0

MaxLenOf_OneShort(l, capacity) == Max(l, l + capacity - 1) % (UsizeMax + 1)

\* max_len: len + capacity
MaxLenOf(l, capacity) == (l + capacity) % (UsizeMax + 1)

\* The split of a Vec with length l and capacity c, where Vec::reserve
\* leaves capacity newcap.  `live` says whether a view was returned.
with_fixed_capacity(m, l, c, capacity, newcap, build) ==
    IF ReserveFails(l, capacity)
    THEN [mem |-> m, cap |-> c, result |-> "capacity_overflow",
          live |-> FALSE, start |-> 0, max_len |-> 0]
    ELSE IF build = "debug" /\ ~(newcap - l >= capacity)
    THEN [mem |-> ReserveMem(m, l, c, newcap), cap |-> newcap,
          result |-> "debug_assert", live |-> FALSE, start |-> 0, max_len |-> 0]
    ELSE IF ~CapacityNonZero(newcap)
    THEN [mem |-> ReserveMem(m, l, c, newcap), cap |-> newcap,
          result |-> "zero_capacity", live |-> FALSE, start |-> 0, max_len |-> 0]
    ELSE [mem |-> ReserveMem(m, l, c, newcap), cap |-> newcap,
          result |-> "ok", live |-> TRUE, start |-> l, max_len |-> MaxLenOf(l, capacity)]

----------------------------------------------------------------------------
(* FixedCapacityVec *)

\* self.max_len - self.buffer.len()
additional_cap(mx, l) == mx - l

PushGuard_Unchecked(mx, l) == TRUE

\* assert!(self.additional_cap() > 0) in push
PushGuard(mx, l) == additional_cap(mx, l) > 0

push(mx, m, l, c, item) ==
    IF PushGuard(mx, l) THEN VecPush(m, l, c, item, <<>>)
    ELSE Outcome(m, l, c, "capacity_exceeded", <<>>)

SliceFits_Strict(k, mx, l) == k < additional_cap(mx, l)

\* assert!(other.len() <= self.additional_cap())
SliceFits(k, mx, l) == k <= additional_cap(mx, l)

\* set_len(len + other.len()), then one copy of `other` into [len, new len)
extend_from_slice(mx, m, l, c, other) ==
    IF SliceFits(Len(other), mx, l)
    THEN Outcome(CopySlice(m, other, 0, l, Len(other)), l + Len(other), c, "ok",
                 <<CopyRec("arg", 0, l, Len(other))>>)
    ELSE Outcome(m, l, c, "capacity_exceeded", <<>>)

\* assert!(cap_needed <= self.additional_cap())
RepeatFits(cap_needed, mx, l) == cap_needed <= additional_cap(mx, l)

InitialM_NoHalving(n) == n

\* let mut m = n >> 1
InitialM(n) == n \div 2

ShiftLeft1_NoShift(x) == x

\* copy_size <<= 1
ShiftLeft1(x) == (2 * x) % (UsizeMax + 1)

\* The doubling loop: while m > 0, copy the run written so far (copy_size
\* slots from buf_start) to buf_fill, double copy_size, halve m.
RECURSIVE DoublingLoop(_, _, _)
DoublingLoop(s, buf_start, mm) ==
    IF mm > 0
    THEN DoublingLoop(
            [mem |-> CopyMem(s.mem, buf_start, s.fill, s.copy_size),
             fill |-> s.fill + s.copy_size,
             copy_size |-> ShiftLeft1(s.copy_size),
             copies |-> Append(s.copies, CopyRec("buf", buf_start, s.fill, s.copy_size))],
            buf_start, mm \div 2)
    ELSE s

\* The initial copy of `slice` to start_pos: buf_fill and copy_size after it.
InitialCopy(m, start_pos, slice) ==
    [mem |-> CopySlice(m, slice, 0, start_pos, Len(slice)),
     fill |-> start_pos + Len(slice),
     copy_size |-> Len(slice),
     copies |-> <<CopyRec("arg", 0, start_pos, Len(slice))>>]

\* The initial copy followed by the doubling loop.
DoubledRun(m, start_pos, slice, n) ==
    DoublingLoop(InitialCopy(m, start_pos, slice), start_pos, InitialM(n))

\* usize subtraction without overflow checks
WrappingSub(a, b) == (a - b) % (UsizeMax + 1)

RemainderCopy_Skipped(s, buf_start, rem_len) == s

\* The copy of the remaining rem_len slots from the start of the run.
RemainderCopy(s, buf_start, rem_len) ==
    IF rem_len > 0
    THEN [s EXCEPT !.mem = CopyMem(s.mem, buf_start, s.fill, rem_len),
                   !.copies = Append(s.copies, CopyRec("buf", buf_start, s.fill, rem_len))]
    ELSE s

\* extend_with_repeat(slice, n).  `cap_needed - copy_size` is a usize
\* subtraction: when it would go below zero, a build with overflow checks
\* ("debug") panics there, and a build without ("release") wraps to a huge
\* rem_len and starts a copy that runs off the mapped memory; the process
\* is killed after `fault` slots of that copy.
extend_with_repeat(mx, m, l, c, slice, n, build, fault) ==
    LET prod == checked_mul(Len(slice), n) IN
    IF ~prod.some THEN Outcome(m, l, c, "overflow", <<>>)
    ELSE IF ~RepeatFits(prod.val, mx, l) THEN Outcome(m, l, c, "capacity_exceeded", <<>>)
    ELSE
      LET cap_needed == prod.val
          start_pos == l
          s1 == DoubledRun(m, start_pos, slice, n)
      IN IF cap_needed < s1.copy_size
         THEN IF build = "debug"
              THEN Outcome(s1.mem, l, c, "sub_overflow", s1.copies)
              ELSE Outcome(CopyForward(s1.mem, start_pos, s1.fill, fault), l, c, "crash",
                           Append(s1.copies,
                                  [CopyRec("buf", start_pos, s1.fill, fault) EXCEPT
                                     !.count = WrappingSub(cap_needed, s1.copy_size)]))
         ELSE LET s2 == RemainderCopy(s1, start_pos, cap_needed - s1.copy_size)
              IN Outcome(s2.mem, start_pos + cap_needed, c, "ok", s2.copies)

\* How many slots a runaway copy starting at `fill` writes before the
\* process is killed: any number, explored up to MaxFault.
FaultPoints(fill) == 0 .. Min(MaxFault, Max(0, MemSize - fill))

\* assert!(self.additional_cap() > 0) in Extend::extend
ExtendGuard(mx, l) == additional_cap(mx, l) > 0

\* Extend::extend: for each item of the iterator, assert, then Vec::push.
RECURSIVE extend_loop(_, _, _)
extend_loop(mx, o, items) ==
    IF items = <<>> THEN o
    ELSE IF ~ExtendGuard(mx, o.len) THEN [o EXCEPT !.result = "capacity_exceeded"]
    ELSE extend_loop(mx, VecPush(o.mem, o.len, o.cap, Head(items), o.copies), Tail(items))

extend(mx, m, l, c, items) == extend_loop(mx, Outcome(m, l, c, "ok", <<>>), items)

\* FixedCapacityVec::capacity
fcv_capacity(mx, st) == mx - st

fcv_len_FromZero(l, st) == l

\* FixedCapacityVec::len
fcv_len(l, st) == l - st

\* Deref::deref: &self.buffer[self.start..self.buffer.len()]
deref(m, l, st) == [i \in 1 .. (l - st) |-> m[st + i - 1]]

deref_mut_FromZero(l, st) == 0 .. l - 1

\* DerefMut::deref_mut (and AsMut::as_mut, which calls it):
\* &mut self.buffer[start..], given as the buffer indices the slice covers.
deref_mut(l, st) == st .. l - 1

StoreAt_Next(m, i, v) == [m EXCEPT ![i + 1] = v]

\* view[k] = v through the mutable slice, as a store to buffer index i.
StoreAt(m, i, v) == [m EXCEPT ![i] = v]

----------------------------------------------------------------------------
(* The state machine *)

Buf == BufOf(mem, len)

OpRec(name, slice, n, capacity) ==
    [name |-> name, slice |-> slice, n |-> n, capacity |-> capacity]

Init ==
    \E s \in InitBufs : \E c \in {Len(s), Len(s) + MaxSlack} :
        /\ mem = MemOf(s)
        /\ len = Len(s)
        /\ cap = c
        /\ view = "none"
        /\ start = 0
        /\ max_len = 0
        /\ op = OpRec("new", <<>>, 0, 0)
        /\ result = "ok"
        /\ copies = <<>>
        /\ pre_buf = s
        /\ pre_cap = c
        /\ req = 0
        /\ orig = <<>>
        /\ cap0 = 0
        /\ appended = <<>>

\* vec.with_fixed_capacity(capacity)
Split ==
    /\ view = "none"
    /\ \E capacity \in Caps : \E build \in Builds :
         /\ capacity <= MaxCap => len + capacity <= MaxTotal
         /\ \E newcap \in (IF ReserveFails(len, capacity) THEN {cap}
                           ELSE ReserveOutcomes(len, cap, capacity)) :
              LET r == with_fixed_capacity(mem, len, cap, capacity, newcap, build) IN
              /\ mem' = r.mem
              /\ cap' = r.cap
              /\ view' = IF r.live THEN "live" ELSE "gone"
              /\ start' = r.start
              /\ max_len' = r.max_len
              /\ op' = OpRec("with_fixed_capacity", <<>>, 0, capacity)
              /\ result' = r.result
              /\ copies' = <<>>
              /\ pre_buf' = Buf
              /\ pre_cap' = cap
              /\ req' = capacity
              /\ orig' = Buf
              /\ cap0' = r.cap
              /\ appended' = <<>>
              /\ UNCHANGED len

\* A call on the live view ends with outcome `out`; `asked` is what the
\* call was asked to append.
Apply(o, out, asked) ==
    /\ mem' = out.mem
    /\ len' = out.len
    /\ cap' = out.cap
    /\ op' = o
    /\ result' = out.result
    /\ copies' = out.copies
    /\ pre_buf' = Buf
    /\ pre_cap' = cap
    /\ appended' = IF out.result = "ok" THEN appended \o asked ELSE appended
    /\ view' = IF out.result = "ok" THEN "live" ELSE "gone"
    /\ UNCHANGED <<start, max_len, req, orig, cap0>>

Live == view = "live"

Push ==
    /\ Live
    /\ \E item \in Items :
         Apply(OpRec("push", <<item>>, 0, 0), push(max_len, mem, len, cap, item), <<item>>)

RECURSIVE Repeat(_, _)
Repeat(s, k) == IF k = 0 THEN <<>> ELSE s \o Repeat(s, k - 1)

ExtendFromSlice ==
    /\ Live
    /\ \E other \in Slices :
         Apply(OpRec("extend_from_slice", other, 0, 0),
               extend_from_slice(max_len, mem, len, cap, other), other)

ExtendWithRepeat ==
    /\ Live
    /\ \E slice \in Slices : \E n \in Reps :
         LET o == OpRec("extend_with_repeat", slice, n, 0)
             asked == IF Len(slice) * n <= MaxTotal THEN Repeat(slice, n) ELSE <<>>
             checked == extend_with_repeat(max_len, mem, len, cap, slice, n, "debug", 0)
         IN IF checked.result = "sub_overflow"
            THEN \E build \in Builds :
                 \E fault \in (IF build = "release" THEN FaultPoints(len + Len(slice))
                               ELSE {0}) :
                   Apply(o, extend_with_repeat(max_len, mem, len, cap, slice, n,
                                               build, fault), asked)
            ELSE Apply(o, checked, asked)

Extend ==
    /\ Live
    /\ \E items \in Iters :
         Apply(OpRec("extend", items, 0, 0), extend(max_len, mem, len, cap, items), items)

\* The view goes out of scope; FixedCapacityVec has no Drop impl.
Drop ==
    /\ Live
    /\ view' = "dropped"
    /\ op' = OpRec("drop", <<>>, 0, 0)
    /\ result' = "ok"
    /\ copies' = <<>>
    /\ pre_buf' = Buf
    /\ pre_cap' = cap
    /\ UNCHANGED <<mem, len, cap, start, max_len, req, orig, cap0, appended>>

Next == Split \/ Push \/ ExtendFromSlice \/ ExtendWithRepeat \/ Extend \/ Drop

Spec == Init /\ [][Next]_vars

\* The element a caller stores through the mutable slice.
Stored == <<"w", 1>>

\* The slots of the view that hold something else than what was appended.
Rewritten == {i \in start .. len - 1 : mem[i] # appended[i - start + 1]}

\* A store through the slice that deref_mut / as_mut hands out.  One slot
\* of a view is rewritten: a store to a second slot acts on other slots in
\* the same way.
DerefMutStore ==
    /\ Live
    /\ Rewritten = {}
    /\ \E i \in deref_mut(len, start) :
         /\ mem' = StoreAt(mem, i, Stored)
         /\ op' = OpRec("deref_mut", <<Stored>>, i, 0)
         /\ result' = "ok"
         /\ copies' = <<CopyRec("arg", 0, i, 1)>>
         /\ pre_buf' = Buf
         /\ pre_cap' = cap
         /\ UNCHANGED <<len, cap, view, start, max_len, req, orig, cap0, appended>>

NextMut == Next \/ DerefMutStore

SpecMut == Init /\ [][NextMut]_vars

----------------------------------------------------------------------------
(* Back-reference decoding (benches/decode_rle.rs) *)

\* decode_rle_naive: push buffer[len - distance], count times.
RECURSIVE decode_rle_naive(_, _, _)
decode_rle_naive(buf, distance, count) ==
    IF count = 0 THEN buf
    ELSE decode_rle_naive(Append(buf, buf[Len(buf) - distance + 1]), distance, count - 1)

FullRepeats_RoundedUp(count, k) == (count + k - 1) \div k

\* let full_repeats = num_bytes_to_fill / slice_to_repeat.len()
FullRepeats(count, k) == count \div k

\* The rest of decode_rle_lib_optim after extend_with_repeat ended as r1:
\* filled = append.len(), then extend_from_slice of the first
\* count - filled elements of slice_to_repeat.
DecodeTail(sp, slice_to_repeat, count, build, r1) ==
    IF r1.result # "ok" THEN r1
    ELSE
      LET filled == fcv_len(r1.len, sp.start) IN
      IF filled > count
      THEN Outcome(r1.mem, r1.len, r1.cap,
                   IF build = "debug" THEN "sub_overflow" ELSE "index_out_of_range",
                   r1.copies)
      ELSE IF count - filled > Len(slice_to_repeat)
      THEN Outcome(r1.mem, r1.len, r1.cap, "index_out_of_range", r1.copies)
      ELSE
        LET r2 == extend_from_slice(sp.max_len, r1.mem, r1.len, r1.cap,
                                    SubSeq(slice_to_repeat, 1, count - filled))
        IN [r2 EXCEPT !.copies = r1.copies \o r2.copies]

\* decode_rle_lib_optim(buffer, repeating_fragment_len = distance,
\* num_bytes_to_fill = count) on a Vec with length l and capacity c, where
\* Vec::reserve leaves capacity newcap.  `old.len() - distance` is a usize
\* subtraction: below zero it panics with overflow checks and wraps without,
\* and the wrapped start then fails the slice's range check.
decode_rle_lib_optim(m, l, c, distance, count, newcap, build, fault) ==
    LET sp == with_fixed_capacity(m, l, c, count, newcap, build) IN
    IF ~sp.live THEN Outcome(sp.mem, l, sp.cap, sp.result, <<>>)
    ELSE IF distance > l
    THEN Outcome(sp.mem, l, sp.cap,
                 IF build = "debug" THEN "sub_overflow" ELSE "index_out_of_range", <<>>)
    ELSE
      LET slice_to_repeat == SubSeq(BufOf(sp.mem, l), l - distance + 1, l) IN
      IF Len(slice_to_repeat) = 0
      THEN Outcome(sp.mem, l, sp.cap, "divide_by_zero", <<>>)
      ELSE
        DecodeTail(sp, slice_to_repeat, count, build,
                   extend_with_repeat(sp.max_len, sp.mem, l, sp.cap, slice_to_repeat,
                                      FullRepeats(count, Len(slice_to_repeat)),
                                      build, fault))

\* The Vec a decoder is first handed: up to MaxDist distinct elements.
DecodeInit ==
    \E s \in {Elems("o", k) : k \in 0 .. MaxDist} : \E c \in {Len(s), Len(s) + MaxSlack} :
        /\ mem = MemOf(s)
        /\ len = Len(s)
        /\ cap = c
        /\ view = "none"
        /\ start = 0
        /\ max_len = 0
        /\ op = OpRec("new", <<>>, 0, 0)
        /\ result = "ok"
        /\ copies = <<>>
        /\ pre_buf = s
        /\ pre_cap = c
        /\ req = 0
        /\ orig = <<>>
        /\ cap0 = 0
        /\ appended = <<>>

\* One call of decode_rle_lib_optim(&mut buffer, distance, count): the split,
\* the repeat, the partial copy and the end of the view's scope.  op.n holds
\* the distance and op.capacity the count.
DecodeApply(distance, count, out) ==
    /\ mem' = out.mem
    /\ len' = out.len
    /\ cap' = out.cap
    /\ view' = IF out.result = "ok" THEN "dropped" ELSE "gone"
    /\ start' = len
    /\ max_len' = MaxLenOf(len, count)
    /\ op' = OpRec("decode_rle_lib_optim", <<>>, distance, count)
    /\ result' = out.result
    /\ copies' = out.copies
    /\ pre_buf' = Buf
    /\ pre_cap' = cap
    /\ req' = count
    /\ orig' = Buf
    /\ cap0' = out.cap
    /\ UNCHANGED appended

\* The builds and fault points that make a difference to a call: only one
\* that meets a usize subtraction below zero depends on them.
DecodeChoices(checked) ==
    IF checked.result = "sub_overflow"
    THEN {<<"debug", 0>>} \cup {<<"release", f>> : f \in 0 .. MaxFault}
    ELSE {<<"debug", 0>>}

Decode ==
    /\ view \in {"none", "dropped"}
    /\ \E distance \in 0 .. MaxDist : \E count \in 0 .. MaxCount :
         /\ len + count <= DecodeTotal
         /\ \E newcap \in (IF ReserveFails(len, count) THEN {cap}
                           ELSE ReserveOutcomes(len, cap, count)) :
            \E ch \in DecodeChoices(decode_rle_lib_optim(mem, len, cap, distance, count,
                                                         newcap, "debug", 0)) :
              DecodeApply(distance, count,
                          decode_rle_lib_optim(mem, len, cap, distance, count,
                                               newcap, ch[1], ch[2]))

NextDecode == Decode

SpecDecode == DecodeInit /\ [][NextDecode]_vars

----------------------------------------------------------------------------
(* What the last call was and what it was asked to do *)

IsAppend == op.name \in {"push", "extend_from_slice", "extend_with_repeat", "extend"}
IsRepeat == op.name = "extend_with_repeat"
IsSplit == op.name = "with_fixed_capacity"

\* Buffer.length and the remaining capacity when the last call began.
PreLen == Len(pre_buf)
PreRemaining == max_len - PreLen

\* slice.len * n of the last extend_with_repeat, as a number.
Product == Len(op.slice) * op.n

\* The elements the last append was asked to append.
Asked ==
    IF IsRepeat THEN (IF Product <= MemSize THEN Repeat(op.slice, op.n) ELSE <<>>)
    ELSE op.slice
AskedLen == IF IsRepeat THEN Product ELSE Len(op.slice)

\* The slots the last call wrote.
Writes == WritesOf(copies)

\* extend_from_slice(other) called k times in a row (a failed call panics,
\* so the calls after it do not run).
RECURSIVE TimesExtendFromSlice(_, _, _, _)
TimesExtendFromSlice(mx, o, other, k) ==
    IF k = 0 \/ o.result # "ok" THEN o
    ELSE TimesExtendFromSlice(mx, extend_from_slice(mx, o.mem, o.len, o.cap, other),
                              other, k - 1)

\* The Vec as it was when the last call began.
PreVec == Outcome(MemOf(pre_buf), PreLen, pre_cap, "ok", <<>>)

----------------------------------------------------------------------------
(* Claims *)

\* C1: for n >= 1 with slice.len * n <= remaining capacity,
\* extend_with_repeat(slice, n) succeeds and leaves the buffer equal to its
\* previous content followed by n back-to-back copies of slice: the length
\* and contents that n calls of extend_from_slice(slice) leave.
C1_RepeatIsNCopies ==
    (IsRepeat /\ op.n >= 1 /\ Product <= PreRemaining) =>
        LET e == TimesExtendFromSlice(max_len, PreVec, op.slice, op.n) IN
        /\ result = "ok"
        /\ len = PreLen + Product
        /\ Buf = pre_buf \o Repeat(op.slice, op.n)
        /\ e.result = "ok"
        /\ len = e.len
        /\ Buf = BufOf(e.mem, e.len)

\* A repeat of a two-element slice three times (one doubling, one remainder).
C1_Witness ==
    IsRepeat /\ op.n = 3 /\ Len(op.slice) = 2 /\ result = "ok" /\ PreLen > 0

\* C2 (as claimed): extend_with_repeat(slice, n) with n = 0 or an empty
\* slice does not fail, writes no slot and leaves length and contents as
\* they were.
C2_RepeatNoOp ==
    (IsRepeat /\ (op.n = 0 \/ op.slice = <<>>)) =>
        /\ result = "ok"
        /\ Writes = {}
        /\ len = PreLen
        /\ Buf = pre_buf

\* C3 (as claimed): no append, succeeding or failing, writes a slot at an
\* index >= max_len.
C3_NoWriteAtOrPastMaxLen ==
    IsAppend => \A i \in Writes : i < max_len

\* A successful split has happened.
SplitDone == view # "none" /\ ~(IsSplit /\ result # "ok")

\* C4: after a split, whatever calls follow (failing ones included),
\* origin_len <= Buffer.length <= max_len, and the allocated capacity is
\* >= max_len and is what it was right after the split.
C4_ViewInvariant ==
    SplitDone =>
        /\ start = Len(orig)
        /\ start <= len
        /\ len <= max_len
        /\ cap >= max_len
        /\ cap = cap0

\* A failed push on a full view that had appended something.
C4_Witness ==
    /\ SplitDone
    /\ op.name = "push"
    /\ result = "capacity_exceeded"
    /\ len = max_len
    /\ len > start

\* C5: an append fails with the capacity-exceeded condition exactly when it
\* would pass max_len: push iff Buffer.length = max_len (and push has no
\* other failure), extend_from_slice iff source.len > max_len -
\* Buffer.length (and it has no other failure), extend_with_repeat iff
\* slice.len * n > max_len - Buffer.length when the product is representable.
C5_CapacityExceededIff ==
    /\ op.name = "push" =>
          /\ result \in {"ok", "capacity_exceeded"}
          /\ result = "capacity_exceeded" <=> PreLen = max_len
    /\ op.name = "extend_from_slice" =>
          /\ result \in {"ok", "capacity_exceeded"}
          /\ result = "capacity_exceeded" <=> Len(op.slice) > PreRemaining
    /\ (IsRepeat /\ Product <= UsizeMax) =>
          (result = "capacity_exceeded" <=> Product > PreRemaining)

\* An extend_from_slice that fills the view exactly, with more than one slot.
C5_Witness ==
    /\ op.name = "extend_from_slice"
    /\ result = "ok"
    /\ Len(op.slice) = PreRemaining
    /\ Len(op.slice) >= 2

\* C6 (as claimed): every append either completes fully or fails with the
\* buffer's length and contents as they were before the call.
C6_AllOrNothing ==
    IsAppend =>
        \/ result = "ok" /\ Buf = pre_buf \o Asked
        \/ result # "ok" /\ len = PreLen /\ Buf = pre_buf

\* C7: extend_with_repeat(slice, n) fails with the overflow condition
\* whenever slice.len * n is not representable in usize, before any slot is
\* written and before the length changes.
C7_OverflowBeforeWrite ==
    (IsRepeat /\ Product > UsizeMax) =>
        /\ result = "overflow"
        /\ copies = <<>>
        /\ len = PreLen
        /\ Buf = pre_buf

\* A repeat whose product overflows although the view has room left.
C7_Witness ==
    IsRepeat /\ Product > UsizeMax /\ result = "overflow" /\ PreRemaining > 0

C9_ZeroCapacityPanics ==
    /\ (IsSplit /\ pre_cap = 0 /\ op.capacity = 0) =>
          (result = "zero_capacity" /\ view = "gone")
    /\ (IsSplit /\ cap = 0) => (result # "ok" /\ view = "gone")

\* The split of a never-allocated empty Vec with capacity 0.
C9_Witness ==
    IsSplit /\ pre_cap = 0 /\ op.capacity = 0 /\ pre_buf = <<>> /\ result = "zero_capacity"

\* C10: after successful appends totalling k <= capacity elements, the
\* buffer is its content at the split followed by the k appended elements
\* in append order, while the view is live and after it ends; the live
\* view's slice is those k elements and its len() is k.
C10_AppendsPersist ==
    /\ view \in {"live", "dropped"} =>
          /\ Len(appended) <= req
          /\ len = Len(orig) + Len(appended)
          /\ Buf = orig \o appended
    /\ view = "live" =>
          /\ deref(mem, len, start) = appended
          /\ fcv_len(len, start) = Len(appended)

\* A dropped view that appended 3 or more elements after a non-empty
\* prefix and left reserved capacity unused.
C10_Witness ==
    /\ view = "dropped"
    /\ Len(orig) >= 1
    /\ Len(appended) >= 3
    /\ Len(appended) < req

----------------------------------------------------------------------------
(* Claims about back-reference decoding, checked under SpecDecode *)

IsDecode == op.name = "decode_rle_lib_optim"
Distance == op.n
Count == op.capacity

\* C11: a decode with 1 <= distance < count (and distance <= buffer
\* length), whatever decodes came before it on the same buffer, succeeds,
\* appends exactly count elements and leaves what was there untouched;
\* every appended element at index j equals the element at index
\* j - distance, which is what decode_rle_naive leaves.
C11_DecodeIsPeriodic ==
    (IsDecode /\ 1 <= Distance /\ Distance < Count /\ Distance <= PreLen
        /\ ~ReserveFails(PreLen, Count)) =>
        /\ result = "ok"
        /\ len = PreLen + Count
        /\ BufOf(mem, PreLen) = pre_buf
        /\ \A j \in PreLen .. len - 1 : mem[j] = mem[j - Distance]
        /\ Buf = decode_rle_naive(pre_buf, Distance, Count)

\* A decode of 7 elements at distance 2 (three full repeats: one doubling,
\* one remainder copy; then a partial copy of one element) on a buffer that
\* an earlier decode has already extended.
C11_Witness ==
    /\ IsDecode
    /\ Distance = 2
    /\ Count = 7
    /\ result = "ok"
    /\ Len(copies) = 4
    /\ \E i \in 1 .. PreLen : \E j \in 1 .. PreLen : i < j /\ pre_buf[i] = pre_buf[j]

\* C12 (as claimed): a decode with distance >= count >= 1 and distance <=
\* buffer length succeeds and leaves the buffer followed by the count
\* elements that start distance back from the old end, which is what
\* decode_rle_naive leaves.
C12_DegenerateIsBulkCopy ==
    (IsDecode /\ Distance >= Count /\ 1 <= Count /\ Distance <= PreLen
        /\ ~ReserveFails(PreLen, Count)) =>
        /\ result = "ok"
        /\ Buf = pre_buf \o SubSeq(pre_buf, PreLen - Distance + 1, PreLen - Distance + Count)
        /\ Buf = decode_rle_naive(pre_buf, Distance, Count)

----------------------------------------------------------------------------
(* Claims about the mutable slice, checked under SpecMut *)

IsStore == op.name = "deref_mut"

\* C13: after a split, no push, extend_from_slice, extend_with_repeat,
\* iterator extend or store through the mutable slice writes a slot at an
\* index < origin_len, the mutable slice covers no such index, and the
\* buffer below origin_len stays what it was at the split.
C13_PrefixUntouched ==
    SplitDone =>
        /\ (IsAppend \/ IsStore) => \A i \in Writes : i >= start
        /\ \A i \in deref_mut(len, start) : i >= start /\ i < len
        /\ start = Len(orig)
        /\ BufOf(mem, start) = orig

\* A store to the first slot of a view that sits behind a non-empty prefix.
C13_Witness ==
    /\ IsStore
    /\ start >= 1
    /\ op.n = start
    /\ len >= start + 2
    /\ mem[start] = Stored

\* C14 (as claimed): while the view is live the buffer length never
\* decreases and no element at an index in [origin_len, Buffer.length)
\* changes, whatever operation of the view runs.
C14_AppendOnly ==
    [][view = "live" =>
         /\ len' >= len
         /\ \A i \in start .. len - 1 : mem'[i] = mem[i]]_vars

\* C14 (amended): while the view is live the buffer length never
\* decreases; push, extend_from_slice, extend_with_repeat and iterator
\* extend change no element at an index in [origin_len, Buffer.length); a
\* store through the mutable slice changes one element of that range,
\* leaves the length alone and changes no other slot.
C14_AppendsNeverRewrite ==
    [][view = "live" =>
         /\ len' >= len
         /\ op'.name # "deref_mut" => \A i \in start .. len - 1 : mem'[i] = mem[i]
         /\ op'.name = "deref_mut" =>
              /\ len' = len
              /\ op'.n \in start .. len - 1
              /\ \A i \in Addr \ {op'.n} : mem'[i] = mem[i]]_vars

\* An append that succeeded on a view one of whose elements had been
\* rewritten through the mutable slice: the rewritten element is still
\* there.
C14_Witness ==
    /\ view = "live"
    /\ IsAppend
    /\ result = "ok"
    /\ len > PreLen
    /\ \E i \in start .. PreLen - 1 : mem[i] = Stored /\ appended[i - start + 1] # Stored

----------------------------------------------------------------------------
(* Claims about the copies of extend_with_repeat, checked under Spec *)

\* C15 (as claimed): every copy of extend_with_repeat after the initial one
\* reads from the buffer, starting at the old buffer end, inside the run
\* this call has written so far, and writes from the end of that run on,
\* so the range it reads ends at or before the range it writes begins.
C15_CopiesReadOwnRun ==
    IsRepeat =>
        \A i \in 2 .. Len(copies) :
            /\ copies[i].src = "buf"
            /\ copies[i].from = PreLen
            /\ copies[i].to = copies[i - 1].to + copies[i - 1].size
            /\ copies[i].from + copies[i].count <= copies[i].to

RECURSIVE FloorLog2(_)
FloorLog2(n) == IF n <= 1 THEN 0 ELSE 1 + FloorLog2(n \div 2)

CeilLog2(n) == IF n <= 1 THEN 0 ELSE 1 + FloorLog2(n - 1)

\* The copies of the last call that doubled the run: they copy the whole
\* run written so far to the slots right behind it.
Doublings ==
    {i \in 2 .. Len(copies) :
        copies[i].src = "buf" /\ copies[i].to = copies[i].from + copies[i].size}

\* C16: for n >= 1, an extend_with_repeat(slice, n) that passes the
\* overflow and capacity checks returns after floor(log2(n)) doubling
\* copies and at most ceil(log2(n)) + 2 copies in all: the initial one, the
\* doublings and at most one remainder copy, whatever the slice length.
C16_LogarithmicCopies ==
    (IsRepeat /\ op.n >= 1 /\ result \notin {"overflow", "capacity_exceeded"}) =>
        /\ result = "ok"
        /\ Cardinality(Doublings) = FloorLog2(op.n)
        /\ Len(copies) <= CeilLog2(op.n) + 2
        /\ Len(copies) - 1 - Cardinality(Doublings) \in {0, 1}

\* Three repeats of a one-element slice: initial copy, one doubling, one
\* remainder copy.
C16_Witness ==
    /\ IsRepeat
    /\ op.n = 3
    /\ Len(op.slice) = 1
    /\ result = "ok"
    /\ Len(copies) = 3
    /\ Cardinality(Doublings) = 1

\* C17 (as claimed): in every extend_with_repeat that passes the overflow
\* and capacity checks, copy_size after the doubling loop is at most
\* cap_needed = slice.len * n and the shifts did not overflow (copy_size is
\* the number of slots written), so cap_needed - copy_size does not go
\* below zero, and a non-zero rem_len is smaller than copy_size.
C17_CopySizeWithinNeeded ==
    (IsRepeat /\ result \notin {"overflow", "capacity_exceeded"}) =>
        LET s1 == DoubledRun(MemOf(pre_buf), PreLen, op.slice, op.n) IN
        /\ s1.copy_size = s1.fill - PreLen
        /\ s1.copy_size <= Product
        /\ result \notin {"sub_overflow", "crash"}
        /\ Product - s1.copy_size > 0 => Product - s1.copy_size < s1.copy_size

\* C18: when an append returns, the slots its copies wrote are exactly
\* [old length, new length), the length has grown by what was asked
\* (slice.len * n for extend_with_repeat), and in every state every slot
\* below Buffer.length holds an element.
C18_LengthCoversWrites ==
    /\ (IsAppend /\ result = "ok") =>
          /\ Writes = PreLen .. len - 1
          /\ len - PreLen = AskedLen
    /\ \A i \in 0 .. len - 1 : mem[i] # Uninit

\* Two repeats of a two-element slice behind elements the view had already
\* appended.
C18_Witness ==
    /\ IsRepeat
    /\ op.n = 2
    /\ Len(op.slice) = 2
    /\ result = "ok"
    /\ PreLen > start
    /\ Len(copies) = 2

====
